---- MODULE Spec2Model ----
(***************************************************************************)
(* Scheduled Task Manager (src/scheduler.py) and the quick actions and     *)
(* creation wizard of the CLI that drive it (src/task_creator_modular.py). *)
(*                                                                         *)
(* Instants are naive wall-clock seconds since 1970-01-01T00:00:00; an     *)
(* ISO-8601 string is modelled by its fields <<Y, M, D, h, m, s>>, and     *)
(* Python's None by the empty tuple.                                       *)
(***************************************************************************)
EXTENDS Integers, Sequences, FiniteSets, TLC

None == <<>>

(***************************************************************************)
(* Program constants.                                                      *)
(***************************************************************************)
PollInterval == 30
ErrorBackoff == 60
ExecutionWindow == 60
OverdueThreshold == 300
SecondsPerDay == 86400

(***************************************************************************)
(* Bounds of the model.                                                    *)
(***************************************************************************)
\* number of clock advances (of one poll interval each) that are followed
MaxTicks == 3
\* cap on run_count of a task
MaxRuns == 1
\* cap on the number of create operations
MaxCreates == 2
\* number of thread objects the process can hold
MaxWorkers == 2
\* number of clock advances that are followed where two tasks are swept
DueTicks == 5
\* number of consecutive days on which _calculate_next_run is called
CalcDays == 75
\* largest run_count of the tasks the health report is computed for
HealthMaxRuns == 10

(***************************************************************************)
(* datetime: the proleptic Gregorian calendar.                             *)
(***************************************************************************)
DaysFromCivil(y, m, d) ==
    LET yy  == IF m <= 2 THEN y - 1 ELSE y
        era == yy \div 400
        yoe == yy - era * 400
        mp  == IF m > 2 THEN m - 3 ELSE m + 9
        doy == (153 * mp + 2) \div 5 + d - 1
        doe == yoe * 365 + yoe \div 4 - yoe \div 100 + doy
    IN  era * 146097 + doe - 719468

CivilFromDays(z0) ==
    LET z   == z0 + 719468
        era == z \div 146097
        doe == z - era * 146097
        yoe == (doe - doe \div 1460 + doe \div 36524 - doe \div 146096) \div 365
        doy == doe - (365 * yoe + yoe \div 4 - yoe \div 100)
        mp  == (5 * doy + 2) \div 153
        d   == doy - (153 * mp + 2) \div 5 + 1
        m   == IF mp < 10 THEN mp + 3 ELSE mp - 9
        y   == yoe + era * 400 + (IF m <= 2 THEN 1 ELSE 0)
    IN  <<y, m, d>>

\* datetime.isoformat(): the fields of the instant
isoformat(t) ==
    LET c == CivilFromDays(t \div SecondsPerDay)
        s == t % SecondsPerDay
    IN  <<c[1], c[2], c[3], s \div 3600, (s % 3600) \div 60, s % 60>>

\* does datetime.fromisoformat accept the string
IsIsoString(x) ==
    /\ Len(x) = 6
    /\ x[2] \in 1..12
    /\ x[3] >= 1
    /\ x[4] \in 0..23 /\ x[5] \in 0..59 /\ x[6] \in 0..59
    /\ CivilFromDays(DaysFromCivil(x[1], x[2], x[3])) = <<x[1], x[2], x[3]>>

\* datetime.fromisoformat(): the instant of the fields
fromisoformat(x) ==
    DaysFromCivil(x[1], x[2], x[3]) * SecondsPerDay + x[4] * 3600 + x[5] * 60 + x[6]

\* datetime.weekday(): Monday is 0
weekday(t) == ((t \div SecondsPerDay) + 3) % 7

\* datetime.replace(hour, minute, second=0, microsecond=0)
ReplaceTime(t, hour, minute) ==
    (t \div SecondsPerDay) * SecondsPerDay + hour * 3600 + minute * 60

(***************************************************************************)
(* _calculate_next_run(send_time, frequency) evaluated at instant t.       *)
(* send_time is the sequence of the integers between the colons.           *)
(***************************************************************************)
ValidSendTime(send_time) ==
    /\ Len(send_time) = 2
    /\ send_time[1] \in 0..23
    /\ send_time[2] \in 0..59

\* a Daily branch that keeps today when now is exactly the time of day
DailyKeepsNow(hour, minute, t) ==
    LET nr == ReplaceTime(t, hour, minute)
    IN  IF nr < t THEN nr + SecondsPerDay ELSE nr

\* lines 221-223
DailyNextRun(hour, minute, t) ==
    LET nr == ReplaceTime(t, hour, minute)
    IN  IF nr <= t THEN nr + SecondsPerDay ELSE nr

\* a Weekly branch that keeps today when today is a Monday
WeeklyKeepsMonday(hour, minute, t) ==
    LET d0 == 0 - weekday(t)
        days_ahead == IF d0 < 0 THEN d0 + 7 ELSE d0
    IN  ReplaceTime(t + days_ahead * SecondsPerDay, hour, minute)

\* lines 226-230
WeeklyNextRun(hour, minute, t) ==
    LET d0 == 0 - weekday(t)
        days_ahead == IF d0 <= 0 THEN d0 + 7 ELSE d0
    IN  ReplaceTime(t + days_ahead * SecondsPerDay, hour, minute)

\* a Monthly branch that does not roll the year forward in December
MonthlyKeepsYear(hour, minute, t) ==
    LET c == CivilFromDays(t \div SecondsPerDay)
    IN  DaysFromCivil(c[1], (c[2] % 12) + 1, 1) * SecondsPerDay + hour * 3600 + minute * 60

\* lines 233-236
MonthlyNextRun(hour, minute, t) ==
    LET c == CivilFromDays(t \div SecondsPerDay)
    IN  IF c[2] = 12
        THEN DaysFromCivil(c[1] + 1, 1, 1) * SecondsPerDay + hour * 3600 + minute * 60
        ELSE DaysFromCivil(c[1], c[2] + 1, 1) * SecondsPerDay + hour * 3600 + minute * 60

NextRunInstant(send_time, frequency, t) ==
    LET hour   == send_time[1]
        minute == send_time[2]
    IN  CASE frequency = "Daily" -> DailyNextRun(hour, minute, t)
          [] frequency = "Weekly" -> WeeklyNextRun(hour, minute, t)
          [] frequency = "Monthly" -> MonthlyNextRun(hour, minute, t)
          [] OTHER -> t + SecondsPerDay

\* the frequencies whose branch calls replace(hour=..., minute=...), which
\* raises when hour or minute is out of range
KnownFrequencies == {"Daily", "Weekly", "Monthly"}

\* an exception (the unpacking of line 217, or replace) gives the current time
_calculate_next_run(send_time, frequency, t) ==
    IF Len(send_time) = 2 /\ (frequency \in KnownFrequencies => ValidSendTime(send_time))
    THEN isoformat(NextRunInstant(send_time, frequency, t))
    ELSE isoformat(t)


(***************************************************************************)
(* The inputs the operations are tried with.                               *)
(***************************************************************************)
Names == {"a"}
SendTimes == {<<9, 30>>}
Frequencies == {"Daily"}
SavedConfigurationReport == "Saved Configuration Report"
WizardReportTypes == {"Daily Report", SavedConfigurationReport}
StartTime == fromisoformat(<<2024, 1, 1, 9, 29, 30>>)
MaxNow == StartTime + MaxTicks * PollInterval

(***************************************************************************)
(* State.                                                                  *)
(***************************************************************************)
VARIABLES
    up,                \* the process is running
    now,               \* datetime.now()
    tasks,             \* self.tasks: task name -> task record
    order,             \* insertion order of self.tasks
    oids,              \* identity of the dict object stored under each name
    nextOid,           \* number of task objects created so far
    disk,              \* content of scheduled_tasks.json
    scheduler_thread,  \* self.scheduler_thread: None or a thread
    stop_scheduler,    \* self.stop_scheduler
    th                 \* every thread's position; thread 0 is the foreground caller

vars == <<up, now, tasks, order, oids, nextOid, disk, scheduler_thread, stop_scheduler, th>>

Foreground == 0
\* self.scheduler_thread = None
NoThread == 0
Workers == 1..MaxWorkers
Threads == 0..MaxWorkers

EmptyMap == <<>>

\* dict.get(k, default)
Get(t, k, default) == IF k \in DOMAIN t THEN t[k] ELSE default

\* d[k] = v
Put(t, k, v) == [x \in (DOMAIN t) \cup {k} |-> IF x = k THEN v ELSE t[x]]

\* del d[k]
Del(t, k) == [x \in (DOMAIN t) \ {k} |-> t[x]]

RemoveFromSeq(s, k) == SelectSeq(s, LAMBDA x: x # k)

\* truth value of a JSON string or None
Truthy(v) == v # None

(***************************************************************************)
(* json.dump and json.load.  The encoder chooses the JSON value by the     *)
(* type of the Python value; the fields of a task have the types of the    *)
(* task objects of create_task and of the wizard: a bool for active, an    *)
(* int for the three counters, a str for what the user answered, and a     *)
(* str or None for every other field.                                      *)
(***************************************************************************)
BooleanKeys == {"active"}
IntegerKeys == {"run_count", "success_count", "error_count"}
AnswerKeys == {"task_name", "description", "report_type", "database", "chat_id", "frequency"}

\* the JSON value written for the value v of the field key
json_dump_value(key, v) ==
    CASE key \in BooleanKeys -> IF v THEN <<"true">> ELSE <<"false">>
      [] key \in IntegerKeys -> <<"number", v>>
      [] key \in AnswerKeys -> <<"string", v>>
      [] OTHER -> IF v = None THEN <<"null">> ELSE <<"string", v>>

\* a decoder that reads null as the string "None"
json_load_valueNullAsText(j) ==
    CASE j[1] = "true" -> TRUE
      [] j[1] = "false" -> FALSE
      [] j[1] = "null" -> <<"None">>
      [] OTHER -> j[2]

\* the Python value read from the JSON value j
json_load_value(j) ==
    CASE j[1] = "true" -> TRUE
      [] j[1] = "false" -> FALSE
      [] j[1] = "null" -> None
      [] OTHER -> j[2]

\* json.dump(self.tasks, f): an object of objects, the keys as they are
json_dump(ts) ==
    [n \in DOMAIN ts |-> [k \in DOMAIN ts[n] |-> json_dump_value(k, ts[n][k])]]

\* json.load(f)
json_load(doc) ==
    [n \in DOMAIN doc |-> [k \in DOMAIN doc[n] |-> json_load_value(doc[n][k])]]

Document(ts, ord) == [ok |-> TRUE, tasks |-> json_dump(ts), order |-> ord]
\* an empty or partially written file
Corrupt == [ok |-> FALSE, tasks |-> EmptyMap, order |-> <<>>]

\* A thread: where it is (pc), the operation it is in (op, name), the task
\* object it holds (oid), what the collaborators answered (rep, success), the
\* value it returned (val), the run_count it has read and not yet written back
\* (read), the loop variables of the sweep (sweepNow, pos,
\* len) and the rest of its sleep (sleepLeft).  Kept for the properties only:
\* before (self.tasks, or the task, when the operation began), trig, firstAt
\* and fires (the task and next_run the thread's sweeps executed last, the
\* time of the first of these sweeps, and how many of them there were).
Thread(pc) ==
    [pc |-> pc, op |-> "none", name |-> "", oid |-> 0, rep |-> "none",
     success |-> FALSE, val |-> FALSE, before |-> <<>>, read |-> 0, buf |-> <<>>,
     sweepNow |-> 0, pos |-> 0, len |-> 0, sleepLeft |-> 0,
     trig |-> <<>>, firstAt |-> 0, fires |-> 0]

Init ==
    /\ up = TRUE
    /\ now = StartTime
    /\ tasks = EmptyMap
    /\ order = <<>>
    /\ oids = EmptyMap
    /\ nextOid = 0
    /\ disk = Document(EmptyMap, <<>>)
    /\ scheduler_thread = NoThread
    /\ stop_scheduler = FALSE
    /\ th = [t \in Threads |-> IF t = Foreground THEN Thread("idle") ELSE Thread("dead")]


(***************************************************************************)
(* Task records.                                                           *)
(***************************************************************************)
\* a task object built without a next_run
ApiTaskUnscheduled(name, description, send_time, frequency, active, t) ==
    [task_name |-> name, description |-> description,
     report_type |-> SavedConfigurationReport, database |-> "db",
     chat_id |-> "c", send_time |-> send_time, frequency |-> frequency,
     active |-> active, created_at |-> isoformat(t), last_run |-> None,
     next_run |-> None,
     run_count |-> 0, saved_config_name |-> <<"cfg">>]

\* the task object built by ScheduledTaskManager.create_task
ApiTask(name, description, send_time, frequency, active, t) ==
    [task_name |-> name, description |-> description,
     report_type |-> SavedConfigurationReport, database |-> "db",
     chat_id |-> "c", send_time |-> send_time, frequency |-> frequency,
     active |-> active, created_at |-> isoformat(t), last_run |-> None,
     next_run |-> _calculate_next_run(send_time, frequency, t),
     run_count |-> 0, saved_config_name |-> <<"cfg">>]

\* the task object built by TaskCreator.create_scheduled_task_wizard
WizardTask(name, description, report_type, send_time, frequency, active, t) ==
    [task_name |-> name, description |-> description,
     report_type |-> report_type, database |-> "db",
     chat_id |-> "c", send_time |-> send_time, frequency |-> frequency,
     active |-> active, created_at |-> isoformat(t), last_run |-> None,
     next_run |-> _calculate_next_run(send_time, frequency, t),
     run_count |-> 0, success_count |-> 0, error_count |-> 0,
     last_error |-> None,
     saved_config_name |-> IF report_type = SavedConfigurationReport
                           THEN <<"cfg">> ELSE None]

FailedToSend == <<"Failed to send report">>
ScheduledExecutionFailed == <<"Scheduled execution failed">>

\* an update after a delivered message that leaves last_error as it is
SuccessUpdateKeepsError(task, t) ==
    LET t1 == Put(task, "last_run", isoformat(t))
        t2 == Put(t1, "run_count", Get(task, "run_count", 0) + 1)
        t3 == Put(t2, "success_count", Get(task, "success_count", 0) + 1)
    IN  Put(t3, "next_run", _calculate_next_run(task.send_time, task.frequency, t))

\* execute_task, lines 393-399: the update after a delivered message
SuccessUpdate(task, t) ==
    LET t1 == Put(task, "last_run", isoformat(t))
        t2 == Put(t1, "run_count", Get(task, "run_count", 0) + 1)
        t3 == Put(t2, "success_count", Get(task, "success_count", 0) + 1)
        t4 == Put(t3, "next_run", _calculate_next_run(task.send_time, task.frequency, t))
    IN  Put(t4, "last_error", None)

\* an update after a message that was not delivered that turns the task off
FailureUpdateDeactivates(task, t) ==
    LET t1 == Put(task, "last_run", isoformat(t))
        t2 == Put(t1, "run_count", Get(task, "run_count", 0) + 1)
        t3 == Put(t2, "error_count", Get(task, "error_count", 0) + 1)
        t4 == Put(t3, "last_error", FailedToSend)
        t5 == Put(t4, "next_run", _calculate_next_run(task.send_time, task.frequency, t))
    IN  Put(t5, "active", FALSE)

\* execute_task, lines 405-411: the update after a message that was not delivered
FailureUpdate(task, t) ==
    LET t1 == Put(task, "last_run", isoformat(t))
        t2 == Put(t1, "run_count", Get(task, "run_count", 0) + 1)
        t3 == Put(t2, "error_count", Get(task, "error_count", 0) + 1)
        t4 == Put(t3, "last_error", FailedToSend)
    IN  Put(t4, "next_run", _calculate_next_run(task.send_time, task.frequency, t))

\* the object a thread holds a reference to is still the one stored under its name
Holds(t) == th[t].name \in DOMAIN tasks /\ oids[th[t].name] = th[t].oid

(***************************************************************************)
(* _load_tasks and _save_tasks.                                            *)
(***************************************************************************)
\* _load_tasks: a missing or unreadable document leaves self.tasks empty
LoadedTasks(d) == IF d.ok THEN json_load(d.tasks) ELSE EmptyMap
LoadedOrder(d) == IF d.ok THEN d.order ELSE <<>>

\* what the caller of _save_tasks does with its result
AfterSave(t, ok) ==
    CASE th[t].op = "exec" /\ t = Foreground ->
             [Thread("ret") EXCEPT !.op = "exec", !.name = th[t].name,
                                   !.val = th[t].success]
      [] th[t].op = "exec" /\ t # Foreground ->
             IF th[t].success
             THEN [th[t] EXCEPT !.pc = "iter", !.pos = @ + 1, !.op = "none",
                                !.name = "", !.oid = 0, !.rep = "none",
                                !.success = FALSE, !.before = <<>>]
             ELSE [th[t] EXCEPT !.pc = "swerr"]
      [] th[t].op = "swerr" ->
             [th[t] EXCEPT !.pc = "iter", !.pos = @ + 1, !.op = "none",
                           !.name = "", !.oid = 0, !.rep = "none",
                           !.success = FALSE, !.before = <<>>]
      [] OTHER ->
             [Thread("ret") EXCEPT !.op = th[t].op, !.name = th[t].name, !.val = ok]

Saving(t) == th[t].pc \in {"save_open", "save_write"}

\* open(self.tasks_config_file, 'w') truncates the file
SaveOpen(t) ==
    /\ up /\ th[t].pc = "save_open"
    /\ disk' = Corrupt
    /\ th' = [th EXCEPT ![t].pc = "save_write"]
    /\ UNCHANGED <<up, now, tasks, order, oids, nextOid, scheduler_thread, stop_scheduler>>

\* open raises: _save_tasks returns False
SaveOpenFails(t) ==
    /\ up /\ th[t].pc = "save_open"
    /\ th' = [th EXCEPT ![t] = AfterSave(t, FALSE)]
    /\ UNCHANGED <<up, now, tasks, order, oids, nextOid, disk, scheduler_thread, stop_scheduler>>

\* json.dump(self.tasks, f) writes the document: _save_tasks returns True
SaveWrite(t) ==
    /\ up /\ th[t].pc = "save_write"
    /\ disk' = Document(tasks, order)
    /\ th' = [th EXCEPT ![t] = AfterSave(t, TRUE)]
    /\ UNCHANGED <<up, now, tasks, order, oids, nextOid, scheduler_thread, stop_scheduler>>

\* the write raises part-way: _save_tasks returns False
SaveWriteFails(t) ==
    /\ up /\ th[t].pc = "save_write"
    /\ disk' = Corrupt
    /\ th' = [th EXCEPT ![t] = AfterSave(t, FALSE)]
    /\ UNCHANGED <<up, now, tasks, order, oids, nextOid, scheduler_thread, stop_scheduler>>

(***************************************************************************)
(* The foreground caller: the menu loop calls one operation at a time.     *)
(***************************************************************************)
FgReady == up /\ th[Foreground].pc \in {"idle", "ret"}

Returned(op, name, val) ==
    [Thread("ret") EXCEPT !.op = op, !.name = name, !.val = val]

Began(op, name) ==
    [Thread("save_open") EXCEPT !.op = op, !.name = name, !.before = tasks]

\* a creation that does not look for the name in self.tasks
CreateOverwrites(name, task) ==
    IF ~ValidSendTime(task.send_time)
    THEN /\ th' = [th EXCEPT ![Foreground] = Returned("create", name, FALSE)]
         /\ UNCHANGED <<tasks, order, oids, nextOid>>
    ELSE /\ nextOid < MaxCreates
         /\ tasks' = Put(tasks, name, task)
         /\ order' = IF name \in DOMAIN tasks THEN order ELSE Append(order, name)
         /\ oids' = Put(oids, name, nextOid + 1)
         /\ nextOid' = nextOid + 1
         /\ th' = [th EXCEPT ![Foreground] = Began("create", name)]

\* the part of create_task and of the wizard after the questions
Create(name, task) ==
    IF name \in DOMAIN tasks \/ ~ValidSendTime(task.send_time)
    THEN /\ th' = [th EXCEPT ![Foreground] = Returned("create", name, FALSE)]
         /\ UNCHANGED <<tasks, order, oids, nextOid>>
    ELSE /\ nextOid < MaxCreates
         /\ tasks' = Put(tasks, name, task)
         /\ order' = Append(order, name)
         /\ oids' = Put(oids, name, nextOid + 1)
         /\ nextOid' = nextOid + 1
         /\ th' = [th EXCEPT ![Foreground] = Began("create", name)]

\* ScheduledTaskManager.create_task
create_task(name, description, send_time, frequency, active) ==
    /\ FgReady
    /\ Create(name, ApiTask(name, description, send_time, frequency, active, now))
    /\ UNCHANGED <<up, now, disk, scheduler_thread, stop_scheduler>>

\* the characters of the strings given as names and descriptions
Characters(str) ==
    CASE str = "" -> <<>>
      [] str = " " -> <<" ">>
      [] str = "a/b" -> <<"a", "/", "b">>
      [] OTHER -> <<str>>

\* len(x.strip()) > 0
NonBlank(str) == \E i \in 1..Len(Characters(str)) : Characters(str)[i] # " "

\* line 1117: the characters the wizard refuses in a name
UnsafeCharacters == {"/", "\\", ":", "*", "?", "\"", "<", ">", "|"}

\* lines 1115-1120: the validators of the questions for name and description
WizardAccepts(name, description) ==
    /\ NonBlank(name)
    /\ \A i \in 1..Len(Characters(name)) : Characters(name)[i] \notin UnsafeCharacters
    /\ NonBlank(description)

\* TaskCreator.create_scheduled_task_wizard; an answer a validator refuses
\* is not taken
create_scheduled_task_wizard(name, description, report_type, send_time, frequency, active) ==
    /\ FgReady
    /\ IF WizardAccepts(name, description)
       THEN Create(name, WizardTask(name, description, report_type, send_time, frequency, active, now))
       ELSE /\ th' = [th EXCEPT ![Foreground] = Returned("create", name, FALSE)]
            /\ UNCHANGED <<tasks, order, oids, nextOid>>
    /\ UNCHANGED <<up, now, disk, scheduler_thread, stop_scheduler>>

\* a toggle that recomputes next_run whatever the new value of active
ToggledRecomputes(task, t) ==
    LET t1 == Put(task, "active", ~task.active)
    IN  Put(t1, "next_run", _calculate_next_run(task.send_time, task.frequency, t))

\* toggle_task, lines 295-300
Toggled(task, t) ==
    LET t1 == Put(task, "active", ~task.active)
    IN  IF t1.active
        THEN Put(t1, "next_run", _calculate_next_run(task.send_time, task.frequency, t))
        ELSE t1

toggle_task(name) ==
    /\ FgReady
    /\ IF name \notin DOMAIN tasks
       THEN /\ th' = [th EXCEPT ![Foreground] = Returned("toggle", name, FALSE)]
            /\ UNCHANGED tasks
       ELSE /\ tasks' = Put(tasks, name, Toggled(tasks[name], now))
            /\ th' = [th EXCEPT ![Foreground] = Began("toggle", name)]
    /\ UNCHANGED <<up, now, order, oids, nextOid, disk, scheduler_thread, stop_scheduler>>

\* a deletion that does not look for the name in self.tasks
delete_taskUnchecked(name) ==
    /\ FgReady
    /\ tasks' = Del(tasks, name)
    /\ order' = RemoveFromSeq(order, name)
    /\ oids' = Del(oids, name)
    /\ th' = [th EXCEPT ![Foreground] = Began("delete", name)]
    /\ UNCHANGED <<up, now, nextOid, disk, scheduler_thread, stop_scheduler>>

delete_task(name) ==
    /\ FgReady
    /\ IF name \notin DOMAIN tasks
       THEN /\ th' = [th EXCEPT ![Foreground] = Returned("delete", name, FALSE)]
            /\ UNCHANGED <<tasks, order, oids>>
       ELSE /\ tasks' = Del(tasks, name)
            /\ order' = RemoveFromSeq(order, name)
            /\ oids' = Del(oids, name)
            /\ th' = [th EXCEPT ![Foreground] = Began("delete", name)]
    /\ UNCHANGED <<up, now, nextOid, disk, scheduler_thread, stop_scheduler>>

\* _task_quick_actions, "Toggle All Tasks"
ToggledAll(task, enable_all, t) ==
    IF task.active # enable_all
    THEN LET t1 == Put(task, "active", enable_all)
         IN  IF enable_all
             THEN Put(t1, "next_run", _calculate_next_run(task.send_time, task.frequency, t))
             ELSE t1
    ELSE task

ToggleAllTasks(enable_all) ==
    /\ FgReady
    /\ DOMAIN tasks # {}
    /\ tasks' = [n \in DOMAIN tasks |-> ToggledAll(tasks[n], enable_all, now)]
    /\ th' = [th EXCEPT ![Foreground] = Began("toggle_all", "")]
    /\ UNCHANGED <<up, now, order, oids, nextOid, disk, scheduler_thread, stop_scheduler>>

\* _task_quick_actions, "Clear Error History"
Cleared(task) ==
    IF Truthy(Get(task, "last_error", None))
    THEN Put(Put(task, "last_error", None), "error_count", 0)
    ELSE task

ClearErrorHistory ==
    /\ FgReady
    /\ DOMAIN tasks # {}
    /\ tasks' = [n \in DOMAIN tasks |-> Cleared(tasks[n])]
    /\ th' = [th EXCEPT ![Foreground] = Began("clear_errors", "")]
    /\ UNCHANGED <<up, now, order, oids, nextOid, disk, scheduler_thread, stop_scheduler>>

(***************************************************************************)
(* execute_task, run by the foreground caller or by the scheduler thread.  *)
(***************************************************************************)
\* lines 344-350: the lookup, after which the thread holds the task object
Executing(t, name) ==
    [th[t] EXCEPT !.pc = "call", !.op = "exec", !.name = name, !.oid = oids[name],
                  !.rep = IF tasks[name].report_type = SavedConfigurationReport
                          THEN "none" ELSE "unsupported",
                  !.success = FALSE, !.val = FALSE, !.before = tasks[name]]

\* execute_task called from the menu
execute_task(name) ==
    /\ FgReady
    /\ IF name \notin DOMAIN tasks
       THEN th' = [th EXCEPT ![Foreground] = Returned("exec", name, FALSE)]
       ELSE /\ Get(tasks[name], "run_count", 0) < MaxRuns
            /\ th' = [th EXCEPT ![Foreground] = Executing(Foreground, name)]
    /\ UNCHANGED <<up, now, tasks, order, oids, nextOid, disk, scheduler_thread, stop_scheduler>>

\* an exception in execute_task that ends the thread that called it
AfterExceptionEndsThread(t) ==
    IF t = Foreground
    THEN Returned("exec", th[t].name, FALSE)
    ELSE Thread("dead")

\* what the caller of execute_task does when it returns False without an update
AfterException(t) ==
    IF t = Foreground
    THEN Returned("exec", th[t].name, FALSE)
    ELSE [th[t] EXCEPT !.pc = "swerr"]

\* lines 352-391: the Report Generator and the Notifier have answered, or an
\* exception was raised and caught at line 417
ExecCall(t) ==
    /\ up /\ th[t].pc = "call"
    /\ \/ \E rep \in (IF th[t].rep = "unsupported" THEN {"unsupported"} ELSE {"ok", "fail"}),
             success \in BOOLEAN :
             th' = [th EXCEPT ![t].pc = "update", ![t].rep = rep, ![t].success = success]
       \/ th' = [th EXCEPT ![t] = AfterException(t)]
    /\ UNCHANGED <<up, now, tasks, order, oids, nextOid, disk, scheduler_thread, stop_scheduler>>

\* lines 393-399 and 405-411
ExecUpdate(t) ==
    /\ up /\ th[t].pc = "update"
    /\ tasks' = IF Holds(t)
                THEN Put(tasks, th[t].name,
                         IF th[t].success
                         THEN SuccessUpdate(tasks[th[t].name], now)
                         ELSE FailureUpdate(tasks[th[t].name], now))
                ELSE tasks
    /\ th' = [th EXCEPT ![t].pc = "save_open"]
    /\ UNCHANGED <<up, now, order, oids, nextOid, disk, scheduler_thread, stop_scheduler>>

\* The same lines step by step, for two threads that are in execute_task at
\* the same time: task.get('run_count', 0) is evaluated (line 395 or 407,
\* after last_run is set), and the thread can be switched before the result
\* is stored.
ExecRead(t) ==
    /\ up /\ th[t].pc = "update"
    /\ tasks' = IF Holds(t)
                THEN Put(tasks, th[t].name,
                         Put(tasks[th[t].name], "last_run", isoformat(now)))
                ELSE tasks
    /\ th' = [th EXCEPT ![t].pc = "write",
                        ![t].read = IF Holds(t)
                                    THEN Get(tasks[th[t].name], "run_count", 0)
                                    ELSE 0]
    /\ UNCHANGED <<up, now, order, oids, nextOid, disk, scheduler_thread, stop_scheduler>>

\* task['run_count'] = <the value read> + 1, and the lines after it
ExecWrite(t) ==
    /\ up /\ th[t].pc = "write"
    /\ tasks' = IF Holds(t)
                THEN Put(tasks, th[t].name,
                         Put(IF th[t].success
                             THEN SuccessUpdate(tasks[th[t].name], now)
                             ELSE FailureUpdate(tasks[th[t].name], now),
                             "run_count", th[t].read + 1))
                ELSE tasks
    /\ th' = [th EXCEPT ![t].pc = "save_open", ![t].read = 0]
    /\ UNCHANGED <<up, now, order, oids, nextOid, disk, scheduler_thread, stop_scheduler>>

(***************************************************************************)
(* The scheduler thread: _run_scheduler.                                   *)
(***************************************************************************)
Alive(w) == th[w].pc # "dead"

\* self.scheduler_thread and self.scheduler_thread.is_alive()
SchedulerAlive == scheduler_thread # NoThread /\ Alive(scheduler_thread)

\* a thread object that is not running
FreshThread == CHOOSE w \in Workers : ~Alive(w) /\ \A v \in Workers : ~Alive(v) => w <= v

\* a start that looks at the stop flag and not at the thread
AlreadyRunningByFlag == scheduler_thread # NoThread /\ ~stop_scheduler

\* line 686
AlreadyRunning == SchedulerAlive

\* line 700
NotRunning == ~SchedulerAlive

\* a loop that never looks at the stop flag
StopNeverSeen == FALSE

\* line 712: not self.stop_scheduler is false
StopRequested == stop_scheduler

start_scheduler ==
    /\ FgReady
    /\ IF AlreadyRunning
       THEN /\ th' = [th EXCEPT ![Foreground] = Returned("start", "", FALSE)]
            /\ UNCHANGED <<scheduler_thread, stop_scheduler>>
       ELSE /\ \E w \in Workers : ~Alive(w)
            /\ stop_scheduler' = FALSE
            /\ scheduler_thread' = FreshThread
            /\ th' = [th EXCEPT ![Foreground] = Returned("start", "", TRUE),
                                ![FreshThread] = Thread("wait")]
    /\ UNCHANGED <<up, now, tasks, order, oids, nextOid, disk>>

stop_scheduler_service ==
    /\ FgReady
    /\ IF NotRunning
       THEN /\ th' = [th EXCEPT ![Foreground] = Returned("stop", "", FALSE)]
            /\ UNCHANGED stop_scheduler
       ELSE /\ stop_scheduler' = TRUE
            /\ th' = [th EXCEPT ![Foreground] = Returned("stop", "", TRUE)]
    /\ UNCHANGED <<up, now, tasks, order, oids, nextOid, disk, scheduler_thread>>

\* lines 712-717: the loop condition, the time of the sweep, and the
\* iterator over self.tasks, which remembers the size of the dictionary
LoopCheck(w) ==
    /\ up /\ th[w].pc = "wait" /\ th[w].sleepLeft = 0
    /\ th' = [th EXCEPT ![w] =
                 IF StopRequested
                 THEN Thread("dead")
                 ELSE [th[w] EXCEPT !.pc = "iter", !.sweepNow = now, !.pos = 1,
                                    !.len = Len(order)]]
    /\ UNCHANGED <<up, now, tasks, order, oids, nextOid, disk, scheduler_thread, stop_scheduler>>

\* a window that is closed at its far end
IsDueInclusive(task, t) ==
    /\ task.active
    /\ Truthy(Get(task, "next_run", None))
    /\ IsIsoString(task.next_run)
    /\ t >= fromisoformat(task.next_run)
    /\ t - fromisoformat(task.next_run) <= ExecutionWindow

\* lines 718-729: is the task to be executed in the sweep sampled at instant t
IsDue(task, t) ==
    /\ task.active
    /\ Truthy(Get(task, "next_run", None))
    /\ IsIsoString(task.next_run)
    /\ t >= fromisoformat(task.next_run)
    /\ t - fromisoformat(task.next_run) < ExecutionWindow

Next_pos(w) == [th[w] EXCEPT !.pos = @ + 1]

\* time.sleep(seconds) at the end of a sweep
Sleeping(w, seconds) ==
    [th[w] EXCEPT !.pc = "wait", !.sleepLeft = seconds, !.sweepNow = 0,
                  !.pos = 0, !.len = 0]

\* line 737: the sweep calls execute_task
Fired(w, name) ==
    LET key == <<name, oids[name], tasks[name].next_run>>
        e   == Executing(w, name)
    IN  IF th[w].trig = key
        THEN [e EXCEPT !.fires = IF @ < 2 THEN @ + 1 ELSE @]
        ELSE [e EXCEPT !.trig = key, !.firstAt = th[w].sweepNow, !.fires = 1]

\* lines 717-737: the next task of the sweep, or the end of the sweep
Visit(w) ==
    /\ up /\ th[w].pc = "iter"
    /\ th' = [th EXCEPT ![w] =
                 IF Len(order) # th[w].len
                 THEN Sleeping(w, ErrorBackoff)
                 ELSE IF th[w].pos > th[w].len
                 THEN Sleeping(w, PollInterval)
                 ELSE IF IsDue(tasks[order[th[w].pos]], th[w].sweepNow)
                 THEN Fired(w, order[th[w].pos])
                 ELSE Next_pos(w)]
    /\ UNCHANGED <<up, now, tasks, order, oids, nextOid, disk, scheduler_thread, stop_scheduler>>

\* lines 741-746: execute_task returned False
SweepError(w) ==
    /\ up /\ th[w].pc = "swerr"
    /\ tasks' = IF Holds(w)
                THEN Put(tasks, th[w].name,
                         Put(tasks[th[w].name], "last_error", ScheduledExecutionFailed))
                ELSE tasks
    /\ th' = [th EXCEPT ![w].pc = "save_open", ![w].op = "swerr"]
    /\ UNCHANGED <<up, now, order, oids, nextOid, disk, scheduler_thread, stop_scheduler>>

(***************************************************************************)
(* The environment: the clock and the process.                             *)
(***************************************************************************)
\* a thread waiting for the user, for the network or for its sleep to end
Blocked(t) ==
    \/ th[t].pc \in {"idle", "ret", "dead", "call"}
    \/ th[t].pc = "wait" /\ th[t].sleepLeft >= PollInterval

Slept(t) ==
    IF th[t].pc = "wait" /\ th[t].sleepLeft > 0
    THEN [th[t] EXCEPT !.sleepLeft = @ - PollInterval]
    ELSE th[t]

\* one poll interval passes
Tick ==
    /\ now + PollInterval <= MaxNow
    /\ up => \A t \in Threads : Blocked(t)
    /\ now' = now + PollInterval
    /\ th' = [t \in Threads |-> Slept(t)]
    /\ UNCHANGED <<up, tasks, order, oids, nextOid, disk, scheduler_thread, stop_scheduler>>

\* one poll interval passes after the last instant the model follows: the
\* sleeps go on, the clock is no longer read
TickBeyond ==
    /\ now + PollInterval > MaxNow
    /\ up => \A t \in Threads : Blocked(t)
    /\ \E t \in Threads : th[t].pc = "wait"
    /\ th' = [t \in Threads |-> Slept(t)]
    /\ UNCHANGED <<up, now, tasks, order, oids, nextOid, disk, scheduler_thread, stop_scheduler>>

\* the process stops: its memory and its threads are gone
Crash ==
    /\ up
    /\ up' = FALSE
    /\ tasks' = EmptyMap /\ order' = <<>> /\ oids' = EmptyMap
    /\ scheduler_thread' = NoThread
    /\ stop_scheduler' = FALSE
    /\ th' = [t \in Threads |-> IF t = Foreground THEN Thread("idle") ELSE Thread("dead")]
    /\ UNCHANGED <<now, nextOid, disk>>

\* ScheduledTaskManager.__init__
Restart ==
    /\ ~up
    /\ up' = TRUE
    /\ tasks' = LoadedTasks(disk)
    /\ order' = LoadedOrder(disk)
    /\ oids' = [n \in DOMAIN LoadedTasks(disk) |-> 0]
    /\ UNCHANGED <<now, nextOid, disk, scheduler_thread, stop_scheduler, th>>

\* _load_tasks in a manager that runs, followed at once by _save_tasks; the
\* document that was read is kept
LoadAndSave ==
    /\ FgReady
    /\ tasks' = LoadedTasks(disk)
    /\ order' = LoadedOrder(disk)
    /\ oids' = [n \in DOMAIN LoadedTasks(disk) |-> 0]
    /\ th' = [th EXCEPT ![Foreground] = [Began("reload", "") EXCEPT !.before = disk]]
    /\ UNCHANGED <<up, now, nextOid, disk, scheduler_thread, stop_scheduler>>

\* the two ways to create a task
CreateOps ==
    \/ \E n \in Names, st \in SendTimes, f \in Frequencies, a \in BOOLEAN :
          create_task(n, "d", st, f, a)
    \/ \E n \in Names, rt \in WizardReportTypes, st \in SendTimes, f \in Frequencies, a \in BOOLEAN :
          create_scheduled_task_wizard(n, "d", rt, st, f, a)

\* the operations of the menus
FgOps ==
    \/ CreateOps
    \/ \E n \in Names : toggle_task(n)
    \/ \E n \in Names : delete_task(n)
    \/ \E n \in Names : execute_task(n)
    \/ \E e \in BOOLEAN : ToggleAllTasks(e)
    \/ ClearErrorHistory

SchedulerOps ==
    \/ start_scheduler
    \/ stop_scheduler_service

\* a thread goes on in the operation it is in
Steps ==
    \/ \E t \in Threads : ExecCall(t)
    \/ \E t \in Threads : ExecUpdate(t)
    \/ \E t \in Threads : SaveOpen(t)
    \/ \E t \in Threads : SaveWrite(t)
    \/ \E w \in Workers : Visit(w)
    \/ \E w \in Workers : SweepError(w)

\* no scheduler thread is in a sweep
WorkersQuiet == \A w \in Workers : th[w].pc \in {"dead", "wait"}

\* Operations that do not overlap: the caller starts an operation between
\* two sweeps, and a sweep starts between two operations of the caller.
Next ==
    \/ WorkersQuiet /\ FgOps
    \/ WorkersQuiet /\ SchedulerOps
    \/ FgReady /\ \E w \in Workers : LoopCheck(w)
    \/ Steps
    \/ Tick

Spec == Init /\ [][Next]_vars

\* The caller alone, with saves that fail and a process that stops and is
\* started again.
FaultNext ==
    \/ FgOps
    \/ ExecCall(Foreground)
    \/ ExecUpdate(Foreground)
    \/ SaveOpen(Foreground)
    \/ SaveWrite(Foreground)
    \/ SaveOpenFails(Foreground)
    \/ SaveWriteFails(Foreground)
    \/ Tick
    \/ Crash
    \/ Restart

FaultSpec == Init /\ [][FaultNext]_vars

\* _calculate_next_run alone, called at instants around midnight, around
\* the time of day, on every day of the week and at the turn of the month
\* and of the year.
CalcEpoch == DaysFromCivil(2023, 12, 20)
CalcClockTimes == {0, 9 * 3600 + 29 * 60 + 59, 9 * 3600 + 30 * 60, 9 * 3600 + 30 * 60 + 1, SecondsPerDay - 1}
CalcInstants ==
    {(CalcEpoch + d) * SecondsPerDay + s : d \in 0..(CalcDays - 1), s \in CalcClockTimes}
CalcSendTimes == {<<0, 0>>, <<9, 30>>, <<23, 59>>}

CalcInit ==
    /\ up = TRUE
    /\ now \in CalcInstants
    /\ tasks = EmptyMap
    /\ order = <<>>
    /\ oids = EmptyMap
    /\ nextOid = 0
    /\ disk = Document(EmptyMap, <<>>)
    /\ scheduler_thread = NoThread
    /\ stop_scheduler = FALSE
    /\ th = [t \in Threads |-> IF t = Foreground THEN Thread("idle") ELSE Thread("dead")]

\* a call of _calculate_next_run; the arguments and the result are kept
Calculate(send_time, frequency) ==
    /\ FgReady
    /\ th' = [th EXCEPT ![Foreground] =
                 [Returned("calc", "", TRUE) EXCEPT !.before =
                     [send_time |-> send_time, frequency |-> frequency,
                      next_run |-> _calculate_next_run(send_time, frequency, now)]]]
    /\ UNCHANGED <<up, now, tasks, order, oids, nextOid, disk, scheduler_thread, stop_scheduler>>

CalcNext == \E st \in CalcSendTimes, f \in KnownFrequencies : Calculate(st, f)

CalcSpec == CalcInit /\ [][CalcNext]_vars

\* The scheduler thread beside a caller who creates tasks and starts and stops
\* the scheduler at any moment, sweeps included.
WorkerStep(w) ==
    \/ LoopCheck(w)
    \/ Visit(w)
    \/ SweepError(w)
    \/ ExecCall(w)
    \/ ExecUpdate(w)
    \/ SaveOpen(w)
    \/ SaveWrite(w)

FgStep ==
    \/ SaveOpen(Foreground)
    \/ SaveWrite(Foreground)

LiveNext ==
    \/ WorkersQuiet /\ CreateOps
    \/ SchedulerOps
    \/ FgStep
    \/ \E w \in Workers : WorkerStep(w)
    \/ Tick
    \/ TickBeyond

\* The threads are scheduled, the collaborators answer, and time passes.
LiveSpec ==
    /\ Init
    /\ [][LiveNext]_vars
    /\ \A w \in Workers : WF_vars(WorkerStep(w))
    /\ WF_vars(FgStep)
    /\ WF_vars(Tick \/ TickBeyond)

\* The scheduler thread beside a caller who creates and deletes tasks at any
\* moment, sweeps and executions included, and who starts and stops the
\* scheduler between two sweeps.
ChurnNext ==
    \/ \E n \in Names, st \in SendTimes, f \in Frequencies, a \in BOOLEAN :
          create_task(n, "d", st, f, a)
    \/ \E n \in Names : delete_task(n)
    \/ WorkersQuiet /\ SchedulerOps
    \/ FgStep
    \/ \E w \in Workers : WorkerStep(w)
    \/ Tick
    \/ TickBeyond

ChurnSpec ==
    /\ Init
    /\ [][ChurnNext]_vars
    /\ \A w \in Workers : WF_vars(WorkerStep(w))
    /\ WF_vars(FgStep)
    /\ WF_vars(Tick \/ TickBeyond)

\* The scheduler thread beside a caller who creates tasks and toggles them
\* at any moment, sweeps and executions included.
ToggleNext ==
    \/ \E n \in Names, st \in SendTimes, f \in Frequencies, a \in BOOLEAN :
          create_task(n, "d", st, f, a)
    \/ \E n \in Names : toggle_task(n)
    \/ WorkersQuiet /\ start_scheduler
    \/ FgStep
    \/ \E w \in Workers : WorkerStep(w)
    \/ Tick

ToggleSpec == Init /\ [][ToggleNext]_vars

\* The scheduler thread beside a caller who creates tasks and executes them
\* from the menu at any moment, an execution of the sweep included.
RaceNext ==
    \/ WorkersQuiet /\ CreateOps
    \/ WorkersQuiet /\ start_scheduler
    \/ \E n \in Names : execute_task(n)
    \/ \E t \in Threads : ExecCall(t)
    \/ \E t \in Threads : ExecRead(t)
    \/ \E t \in Threads : ExecWrite(t)
    \/ \E t \in Threads : SaveOpen(t)
    \/ \E t \in Threads : SaveWrite(t)
    \/ \E w \in Workers : LoopCheck(w)
    \/ \E w \in Workers : Visit(w)
    \/ \E w \in Workers : SweepError(w)
    \/ Tick

RaceSpec == Init /\ [][RaceNext]_vars

\* The scheduler thread with two tasks, one due a minute after the other,
\* and executions that take any time.
DueNames == {"a", "b"}
DueSendTimes == {<<9, 30>>, <<9, 31>>}
DueMaxNow == StartTime + DueTicks * PollInterval

\* one poll interval passes
DueTick ==
    /\ now + PollInterval <= DueMaxNow
    /\ \A t \in Threads : Blocked(t)
    /\ now' = now + PollInterval
    /\ th' = [t \in Threads |-> Slept(t)]
    /\ UNCHANGED <<up, tasks, order, oids, nextOid, disk, scheduler_thread, stop_scheduler>>

DueNext ==
    \/ WorkersQuiet /\ \E n \in DueNames, st \in DueSendTimes :
                          create_task(n, "d", st, "Daily", TRUE)
    \/ WorkersQuiet /\ start_scheduler
    \/ FgStep
    \/ \E w \in Workers : WorkerStep(w)
    \/ DueTick

DueSpec == Init /\ [][DueNext]_vars

\* The scheduler thread beside a caller who has created two tasks, an
\* active one with the wizard and an inactive one with create_task, who
\* toggles the first, and who executes either from the menu, between two
\* sweeps.
KeepInit ==
    /\ up = TRUE
    /\ now = StartTime
    /\ tasks = [n \in DueNames |->
                   IF n = "a"
                   THEN WizardTask("a", "d", SavedConfigurationReport, <<9, 30>>, "Daily", TRUE, StartTime)
                   ELSE ApiTask("b", "d", <<9, 30>>, "Daily", FALSE, StartTime)]
    /\ order = <<"a", "b">>
    /\ oids = [n \in DueNames |-> IF n = "a" THEN 1 ELSE 2]
    /\ nextOid = 2
    /\ disk = Document(tasks, order)
    /\ scheduler_thread = NoThread
    /\ stop_scheduler = FALSE
    /\ th = [t \in Threads |-> IF t = Foreground THEN Thread("idle") ELSE Thread("dead")]

KeepNext ==
    \/ WorkersQuiet /\ start_scheduler
    \/ WorkersQuiet /\ toggle_task("a")
    \/ WorkersQuiet /\ \E n \in DueNames : execute_task(n)
    \/ FgReady /\ \E w \in Workers : LoopCheck(w)
    \/ Steps
    \/ Tick

KeepSpec == KeepInit /\ [][KeepNext]_vars

(***************************************************************************)
(* get_task_health_report.                                                 *)
(***************************************************************************)
\* a report in which a low success rate takes over whatever was found before
health_statusWarningWins(task, t) ==
    LET total_runs   == Get(task, "run_count", 0)
        success_runs == Get(task, "success_count", 0)
        s1 == IF ~task.active THEN "Inactive" ELSE "Healthy"
        s2 == IF Truthy(Get(task, "last_error", None)) THEN "Unhealthy" ELSE s1
        s3 == IF total_runs > 0 /\ success_runs * 100 < 90 * total_runs
              THEN "Warning" ELSE s2
    IN  IF /\ task.active
           /\ Truthy(Get(task, "next_run", None))
           /\ IsIsoString(task.next_run)
           /\ fromisoformat(task.next_run) < t
           /\ t - fromisoformat(task.next_run) > OverdueThreshold
        THEN "Unhealthy" ELSE s3

\* lines 848-879: health_status of one task, the tests in the order of the
\* code, each overwriting what the tests before it found
health_status(task, t) ==
    LET total_runs   == Get(task, "run_count", 0)
        success_runs == Get(task, "success_count", 0)
        s1 == IF ~task.active THEN "Inactive" ELSE "Healthy"
        s2 == IF Truthy(Get(task, "last_error", None)) THEN "Unhealthy" ELSE s1
        s3 == IF total_runs > 0 /\ success_runs * 100 < 90 * total_runs
              THEN (IF s2 = "Healthy" THEN "Warning" ELSE s2)
              ELSE s2
    IN  IF /\ task.active
           /\ Truthy(Get(task, "next_run", None))
           /\ IsIsoString(task.next_run)
           /\ fromisoformat(task.next_run) < t
           /\ t - fromisoformat(task.next_run) > OverdueThreshold
        THEN "Unhealthy" ELSE s3

\* get_task_health_report; the statuses it returns are kept
get_task_health_report ==
    /\ FgReady
    /\ th' = [th EXCEPT ![Foreground] =
                 [Returned("health", "", TRUE) EXCEPT !.before =
                     [n \in DOMAIN tasks |-> health_status(tasks[n], now)]]]
    /\ UNCHANGED <<up, now, tasks, order, oids, nextOid, disk, scheduler_thread, stop_scheduler>>

\* The health report alone, computed for a stored task of every kind: active
\* or not, with and without an error, with every success rate up to
\* HealthMaxRuns runs, without next_run, with a next_run to come and with
\* one just short of, at and beyond the five minutes.
HealthOffsets == {30, 0 - 299, 0 - OverdueThreshold, 0 - OverdueThreshold - 1}
HealthNextRuns == {None} \cup {isoformat(StartTime + d) : d \in HealthOffsets}
HealthTask(active, error, runs, successes, next_run) ==
    [WizardTask("a", "d", SavedConfigurationReport, <<9, 30>>, "Daily", active, StartTime)
        EXCEPT !.last_error = error, !.run_count = runs, !.success_count = successes,
               !.error_count = runs - successes, !.next_run = next_run]

HealthInit ==
    /\ up = TRUE
    /\ now = StartTime
    /\ \E active \in BOOLEAN, error \in {None, FailedToSend}, runs \in 0..HealthMaxRuns,
          next_run \in HealthNextRuns :
          \E successes \in 0..runs :
             tasks = [n \in {"a"} |-> HealthTask(active, error, runs, successes, next_run)]
    /\ order = <<"a">>
    /\ oids = [n \in {"a"} |-> 1]
    /\ nextOid = 1
    /\ disk = Document(tasks, order)
    /\ scheduler_thread = NoThread
    /\ stop_scheduler = FALSE
    /\ th = [t \in Threads |-> IF t = Foreground THEN Thread("idle") ELSE Thread("dead")]

HealthNext == get_task_health_report

HealthSpec == HealthInit /\ [][HealthNext]_vars

(***************************************************************************)
(* get_task_statistics.                                                    *)
(***************************************************************************)
RECURSIVE SumOver(_, _, _)
\* sum(task.get(key, 0) for task in self.tasks.values()), over the names in S
SumOver(ts, key, S) ==
    IF S = {} THEN 0
    ELSE LET n == CHOOSE x \in S : TRUE
         IN  Get(ts[n], key, 0) + SumOver(ts, key, S \ {n})

\* min and max of a list of datetimes, None for the empty list
Earliest(S) == IF S = {} THEN None ELSE <<CHOOSE x \in S : \A y \in S : x <= y>>
Latest(S) == IF S = {} THEN None ELSE <<CHOOSE x \in S : \A y \in S : x >= y>>

\* lines 791-840; success_rate in whole percent; a datetime is <<instant>>
Statistics(ts) ==
    LET N == DOMAIN ts
        total_executions == SumOver(ts, "run_count", N)
        successful_executions == SumOver(ts, "success_count", N)
        active == {n \in N : ts[n].active}
    IN  [total_tasks |-> Cardinality(N),
         active_tasks |-> Cardinality(active),
         inactive_tasks |-> Cardinality(N) - Cardinality(active),
         total_executions |-> total_executions,
         successful_executions |-> successful_executions,
         failed_executions |-> SumOver(ts, "error_count", N),
         success_rate |-> IF total_executions > 0
                          THEN (successful_executions * 100) \div total_executions
                          ELSE 0,
         tasks_with_errors |-> Cardinality({n \in N : Truthy(Get(ts[n], "last_error", None))}),
         next_execution |->
             Earliest({fromisoformat(ts[n].next_run) :
                         n \in {m \in active : /\ Truthy(Get(ts[m], "next_run", None))
                                                /\ IsIsoString(ts[m].next_run)}}),
         last_execution |->
             Latest({fromisoformat(ts[n].last_run) :
                       n \in {m \in N : /\ Truthy(Get(ts[m], "last_run", None))
                                        /\ IsIsoString(ts[m].last_run)}})]

\* get_task_statistics; what it returns is kept
get_task_statistics ==
    /\ FgReady
    /\ th' = [th EXCEPT ![Foreground] =
                 [Returned("stats", "", TRUE) EXCEPT !.before = Statistics(tasks)]]
    /\ UNCHANGED <<up, now, tasks, order, oids, nextOid, disk, scheduler_thread, stop_scheduler>>

\* The two ways to create a task, tried with names, descriptions and send
\* times that are valid and that are not.
GivenNames == {"a", "a/b"}
GivenDescriptions == {"d", "", " "}
GivenSendTimes == {<<9, 30>>, <<24, 0>>, <<9, 60>>, <<9>>, <<9, 30, 0>>}

GivenNext ==
    \/ \E n \in GivenNames, d \in GivenDescriptions, st \in GivenSendTimes,
          f \in KnownFrequencies, a \in BOOLEAN :
          create_task(n, d, st, f, a)
    \/ \E n \in GivenNames, d \in GivenDescriptions, rt \in WizardReportTypes,
          st \in GivenSendTimes, f \in KnownFrequencies, a \in BOOLEAN :
          create_scheduled_task_wizard(n, d, rt, st, f, a)
    \/ FgStep

GivenSpec == Init /\ [][GivenNext]_vars

\* _calculate_next_run alone, called with send times and frequencies that
\* are valid and that are not.
AnyFrequencies == KnownFrequencies \cup {"Hourly"}

AnyCalcNext == \E st \in GivenSendTimes, f \in AnyFrequencies : Calculate(st, f)

AnyCalcSpec == CalcInit /\ [][AnyCalcNext]_vars

\* The caller alone with two stored tasks, an active and an inactive one:
\* the operations on a named task and the quick actions.
FrameNext ==
    \/ \E n \in DueNames : toggle_task(n)
    \/ \E n \in DueNames : delete_task(n)
    \/ \E n \in DueNames : execute_task(n)
    \/ \E e \in BOOLEAN : ToggleAllTasks(e)
    \/ ClearErrorHistory
    \/ ExecCall(Foreground)
    \/ ExecUpdate(Foreground)
    \/ FgStep
    \/ Tick

FrameSpec == KeepInit /\ [][FrameNext]_vars

\* The caller alone, who looks at the health report between the operations
\* of the menus.
MonitorNext ==
    \/ FgOps
    \/ get_task_health_report
    \/ ExecCall(Foreground)
    \/ ExecUpdate(Foreground)
    \/ FgStep
    \/ Tick

MonitorSpec == Init /\ [][MonitorNext]_vars

\* The caller alone: the operations of the menus, one after the other.
CallerNext ==
    \/ FgOps
    \/ get_task_statistics
    \/ ExecCall(Foreground)
    \/ ExecUpdate(Foreground)
    \/ SaveOpen(Foreground)
    \/ SaveWrite(Foreground)
    \/ Tick

CallerSpec == Init /\ [][CallerNext]_vars

\* The caller alone, in a process that stops at any moment and is started
\* again, and that loads and saves its document.
StoreNext ==
    \/ FgOps
    \/ ExecCall(Foreground)
    \/ ExecUpdate(Foreground)
    \/ SaveOpen(Foreground)
    \/ SaveWrite(Foreground)
    \/ LoadAndSave
    \/ Crash
    \/ Restart

StoreSpec == Init /\ [][StoreNext]_vars

(***************************************************************************)
(* Properties.                                                             *)
(***************************************************************************)
run_count(task) == Get(task, "run_count", 0)
success_count(task) == Get(task, "success_count", 0)
error_count(task) == Get(task, "error_count", 0)
last_error(task) == Get(task, "last_error", None)

\* this step is the return of execute_task in thread t, the task found
ExecReturns(t) ==
    /\ th[t].op = "exec"
    /\ th[t].pc \in {"call", "save_open", "save_write"}
    /\ th'[t].pc \in {"ret", "swerr", "iter"}

\* the value execute_task returns at this step
ExecResult(t) == IF t = Foreground THEN th'[t].val ELSE th'[t].pc = "iter"

\* C1: a task that a sweep executed first at the very instant of its
\* next_run is executed once for that next_run: no later sweep of the thread
\* executes the same task object with the same next_run again, whatever the
\* outcome of the execution was.
NoDoubleFire ==
    \A w \in Workers :
        (th[w].fires > 0 /\ th[w].firstAt = fromisoformat(th[w].trig[3]))
            => th[w].fires = 1

\* C2: every stored task has run_count = success_count + error_count,
\* whatever operations were performed.
CountsConserved ==
    \A n \in DOMAIN tasks :
        run_count(tasks[n]) = success_count(tasks[n]) + error_count(tasks[n])

\* C3: an execution whose report generator produced no report is a failure,
\* delivered message or not: execute_task returns False, error_count is one
\* more than before, success_count is what it was, and last_error is truthy.
ReportFailureCounted ==
    [][\A t \in Threads :
          (ExecReturns(t) /\ th[t].rep = "fail" /\ Holds(t)) =>
              LET b == th[t].before
                  a == tasks'[th[t].name]
              IN  /\ ExecResult(t) = FALSE
                  /\ error_count(a) = error_count(b) + 1
                  /\ success_count(a) = success_count(b)
                  /\ Truthy(last_error(a))]_vars

\* C4: when execute_task has found the task and returns, by whatever path,
\* the task's last_run is the current time, its run_count is one more than
\* at the call, exactly one of success_count and error_count is one more,
\* and next_run is recomputed from the task's send_time and frequency.
ExecutionRecorded ==
    [][\A t \in Threads :
          (ExecReturns(t) /\ Holds(t)) =>
              LET b == th[t].before
                  a == tasks'[th[t].name]
              IN  /\ a.last_run = isoformat(now)
                  /\ run_count(a) = run_count(b) + 1
                  /\ \/ /\ success_count(a) = success_count(b) + 1
                        /\ error_count(a) = error_count(b)
                     \/ /\ success_count(a) = success_count(b)
                        /\ error_count(a) = error_count(b) + 1
                  /\ a.next_run = _calculate_next_run(b.send_time, b.frequency, now)]_vars

\* this step is the return of create_task, toggle_task or delete_task from a
\* call that changed self.tasks and went on to save
MutationReturns ==
    /\ th[Foreground].op \in {"create", "toggle", "delete"}
    /\ Saving(Foreground)
    /\ th'[Foreground].pc = "ret"

\* C5: when the save fails in create_task, toggle_task or delete_task, the
\* operation returns False and self.tasks is again what it was before the
\* operation.
RollbackOnFailedSave ==
    [][(MutationReturns /\ disk' # Document(tasks, order)) =>
          /\ th'[Foreground].val = FALSE
          /\ tasks' = th[Foreground].before]_vars

\* C6: a process that stops while a thread is in _save_tasks leaves a
\* complete document on disk, the previous one or the new one.
SaveAtomic ==
    [][(up /\ ~up' /\ \E t \in Threads : Saving(t)) => disk'.ok]_vars

\* C7: when create_task, toggle_task, delete_task or execute_task returns
\* True, the document on disk is the one of self.tasks, so that a manager
\* constructed then loads the same tasks.
TrueMeansPersisted ==
    [][((MutationReturns \/ ExecReturns(Foreground)) /\ th'[Foreground].val = TRUE) =>
          /\ disk' = Document(tasks', order')
          /\ LoadedTasks(disk') = tasks']_vars

AliveWorkers == {w \in Workers : Alive(w)}

\* this step is a return of start_scheduler
StartReturns ==
    /\ th'[Foreground] # th[Foreground]
    /\ th'[Foreground].pc = "ret"
    /\ th'[Foreground].op = "start"

\* C8: at most one scheduler thread is alive at any time, and
\* start_scheduler called while one is alive returns False and changes
\* neither the threads nor the stop flag nor the tasks.
SingleWorker ==
    /\ [](Cardinality(AliveWorkers) <= 1)
    /\ [][(StartReturns /\ AliveWorkers # {}) =>
             /\ th'[Foreground].val = FALSE
             /\ \A w \in Workers : th'[w] = th[w]
             /\ UNCHANGED <<scheduler_thread, stop_scheduler, tasks, order, disk>>]_vars

\* start_scheduler was refused while a scheduler thread sleeps or sweeps
StartRefused ==
    /\ th[Foreground].pc = "ret"
    /\ th[Foreground].op = "start"
    /\ th[Foreground].val = FALSE
    /\ AliveWorkers # {}

\* C9: a stop request does not cut a sweep short, the thread ends only
\* where it tests the flag between two sweeps; once the flag is set the
\* thread begins no sweep; and a thread that is alive when the flag is set
\* eventually ends.
StopCooperative ==
    /\ [][\A w \in Workers :
             /\ (Alive(w) /\ th'[w].pc = "dead") =>
                    (th[w].pc = "wait" /\ th[w].sleepLeft = 0 /\ stop_scheduler)
             /\ (stop_scheduler /\ th[w].pc = "wait") =>
                    th'[w].pc \in {"wait", "dead"}]_vars
    /\ \A w \in Workers : (stop_scheduler /\ Alive(w)) ~> ~Alive(w)

\* the stop flag is set while the thread is in execute_task
StopDuringExecution ==
    /\ stop_scheduler
    /\ \E w \in Workers : th[w].pc = "call"

\* C10: in a sweep the thread calls execute_task for the task it looks at
\* if and only if the task is active, has a next_run, and the time sampled
\* at the start of the sweep is at or after next_run by less than 60
\* seconds.
DueExactly ==
    [][\A w \in Workers :
          (th[w].pc = "iter" /\ th'[w] # th[w] /\ th[w].len = Len(order)
             /\ th[w].pos <= Len(order)) =>
              LET task == tasks[order[th[w].pos]]
                  late == th[w].sweepNow - fromisoformat(task.next_run)
              IN  (th'[w].pc = "call" /\ th'[w].name = task.task_name)
                     <=> (/\ task.active = TRUE
                          /\ Get(task, "next_run", None) # None
                          /\ 0 <= late
                          /\ late < 60)]_vars

\* a sweep that began 30 seconds after the task's next_run executes it
ExecutedLate ==
    \E w \in Workers :
        /\ th[w].pc = "call"
        /\ th[w].sweepNow = fromisoformat(th[w].before.next_run) + 30

\* _calculate_next_run has returned for the given frequency
Calculated(frequency) ==
    /\ th[Foreground].op = "calc"
    /\ th[Foreground].before.frequency = frequency

today == now \div SecondsPerDay
CalcT == th[Foreground].before.send_time
CalcResult == th[Foreground].before.next_run
\* the ISO string of the day with number d at the time of day T
DayAt(d, T) == LET c == CivilFromDays(d) IN <<c[1], c[2], c[3], T[1], T[2], 0>>

\* C12: Daily gives today at T, seconds zero, when now is strictly before
\* T today, and tomorrow at T otherwise, also when now is exactly T; the
\* result is strictly after now.
DailyPolicy ==
    Calculated("Daily") =>
        /\ CalcResult = IF now % SecondsPerDay < CalcT[1] * 3600 + CalcT[2] * 60
                        THEN DayAt(today, CalcT)
                        ELSE DayAt(today + 1, CalcT)
        /\ fromisoformat(CalcResult) > now

\* Daily was asked at the very second of the time of day
DailyAtT ==
    /\ Calculated("Daily")
    /\ now % SecondsPerDay = CalcT[1] * 3600 + CalcT[2] * 60

\* C13: Weekly gives a Monday at T, strictly later than now, one to seven
\* calendar days after now's day and never now's own day.
WeeklyPolicy ==
    Calculated("Weekly") =>
        \E k \in 1..7 :
            /\ CalcResult = DayAt(today + k, CalcT)
            /\ (today + k + 3) % 7 = 0
            /\ fromisoformat(CalcResult) > now
            /\ CalcResult[3] # CivilFromDays(today)[3]

\* Weekly was asked on a Monday before T
WeeklyOnMondayBeforeT ==
    /\ Calculated("Weekly")
    /\ weekday(now) = 0
    /\ now % SecondsPerDay < CalcT[1] * 3600 + CalcT[2] * 60

\* C14: Monthly gives day 1 at T of the month after now's month, January
\* of the next year when now is in December, never a day of now's month.
MonthlyPolicy ==
    Calculated("Monthly") =>
        LET c == CivilFromDays(today)
        IN  /\ CalcResult = IF c[2] = 12
                            THEN <<c[1] + 1, 1, 1, CalcT[1], CalcT[2], 0>>
                            ELSE <<c[1], c[2] + 1, 1, CalcT[1], CalcT[2], 0>>
            /\ <<CalcResult[1], CalcResult[2]>> # <<c[1], c[2]>>
            /\ fromisoformat(CalcResult) > now

\* Monthly was asked in December
MonthlyInDecember ==
    /\ Calculated("Monthly")
    /\ CivilFromDays(today)[2] = 12

\* C11: the scheduler thread ends only when stop has been signalled,
\* whatever the outcome of an execution and whatever error a sweep raises;
\* after an error in a sweep it sleeps the 60 seconds of the backoff; and
\* as long as stop is not signalled a sleeping thread starts another sweep.
LoopNeverEnds ==
    /\ [][\A w \in Workers :
             /\ (Alive(w) /\ th'[w].pc = "dead") => stop_scheduler
             /\ (th[w].pc = "iter" /\ th'[w] # th[w] /\ Len(order) # th[w].len) =>
                    (th'[w].pc = "wait" /\ th'[w].sleepLeft = 60)]_vars
    /\ \A w \in Workers :
          (th[w].pc = "wait" /\ ~stop_scheduler) ~> (th[w].pc = "iter" \/ stop_scheduler)

\* the thread sleeps the backoff after an error in a sweep, stop not signalled
BackoffAfterError ==
    /\ ~stop_scheduler
    /\ \E w \in Workers : th[w].pc = "wait" /\ th[w].sleepLeft = ErrorBackoff

\* this step is a call of create_task or of the wizard
CreateCalled ==
    /\ FgReady
    /\ th'[Foreground] # th[Foreground]
    /\ th'[Foreground].op = "create"

\* C15: a creation under a name that is in self.tasks returns False and
\* leaves self.tasks and the document on disk as they are; each name is
\* stored once.
DuplicateRejected ==
    /\ [][(CreateCalled /\ th'[Foreground].name \in DOMAIN tasks) =>
             /\ th'[Foreground].pc = "ret"
             /\ th'[Foreground].val = FALSE
             /\ UNCHANGED <<tasks, order, disk>>]_vars
    /\ [](/\ Len(order) = Cardinality(DOMAIN tasks)
          /\ \A i, j \in 1..Len(order) : order[i] = order[j] => i = j)

\* a creation was refused for its name, the time of day being valid
DuplicateRefused ==
    /\ th[Foreground].pc = "ret"
    /\ th[Foreground].op = "create"
    /\ th[Foreground].val = FALSE
    /\ th[Foreground].name \in DOMAIN tasks
    /\ disk = Document(tasks, order)

\* this step is a call of toggle_task that finds the task
ToggleCalled(n) ==
    /\ FgReady
    /\ th'[Foreground].pc = "save_open"
    /\ th'[Foreground].op = "toggle"
    /\ th'[Foreground].name = n
    /\ n \in DOMAIN tasks

\* C16: toggle_task flips active; when the task becomes active its
\* next_run is computed anew from the current time, when it becomes
\* inactive its next_run is kept; and a sweep never executes a task that
\* is inactive.
TogglePolicy ==
    [][/\ \A n \in Names :
             ToggleCalled(n) =>
                 /\ tasks'[n].active = ~tasks[n].active
                 /\ tasks'[n].next_run =
                        IF tasks'[n].active
                        THEN _calculate_next_run(tasks[n].send_time, tasks[n].frequency, now)
                        ELSE tasks[n].next_run
                 /\ \A k \in DOMAIN tasks[n] \ {"active", "next_run"} :
                        tasks'[n][k] = tasks[n][k]
       /\ \A w \in Workers :
             (th[w].pc = "iter" /\ th'[w].pc = "call") => tasks[th'[w].name].active]_vars

\* a sweep has passed over a task that was toggled off with its next_run
\* inside the window
SkippedWhileOff ==
    \E w \in Workers, n \in DOMAIN tasks :
        /\ th[w].pc = "iter" /\ th[w].pos = 2 /\ order = <<n>>
        /\ th[Foreground].op = "toggle" /\ th[Foreground].pc = "ret"
        /\ ~tasks[n].active
        /\ th[w].sweepNow >= fromisoformat(tasks[n].next_run)
        /\ th[w].sweepNow - fromisoformat(tasks[n].next_run) < ExecutionWindow

\* this step is a call of execute_task, toggle_task or delete_task with a
\* name that is not in self.tasks
CalledForMissing ==
    /\ FgReady
    /\ th'[Foreground] # th[Foreground]
    /\ th'[Foreground].op \in {"exec", "toggle", "delete"}
    /\ th'[Foreground].name \notin DOMAIN tasks

\* C17: execute_task, toggle_task and delete_task called with a name that
\* is not in self.tasks return False at once, without a call of the Report
\* Generator, of the Notifier or of _save_tasks, and leave self.tasks and
\* the document on disk as they are.
MissingRejected ==
    [][CalledForMissing =>
          /\ th'[Foreground].pc = "ret"
          /\ th'[Foreground].val = FALSE
          /\ UNCHANGED <<tasks, order, oids, disk>>]_vars

\* delete_task was refused for a name that was deleted before
MissingRefused ==
    /\ th[Foreground].pc = "ret"
    /\ th[Foreground].op = "delete"
    /\ th[Foreground].val = FALSE
    /\ th[Foreground].name \notin DOMAIN tasks
    /\ nextOid > 0

\* the status the precedence of the specification gives
SpecifiedStatus(task, t) ==
    IF last_error(task) # None THEN "Unhealthy"
    ELSE IF /\ task.active
            /\ Get(task, "next_run", None) # None
            /\ t - fromisoformat(task.next_run) > 300
         THEN "Unhealthy"
    ELSE IF ~task.active THEN "Inactive"
    ELSE IF run_count(task) > 0 /\ success_count(task) * 100 < 90 * run_count(task)
         THEN "Warning"
    ELSE "Healthy"

\* C19: the status get_task_health_report gives a task is the one of the
\* precedence: Unhealthy with an error; else Unhealthy when active and
\* more than 300 s after next_run; else Inactive when not active; else
\* Warning when the success rate is below 90 percent; else Healthy.
HealthPrecedence ==
    (th[Foreground].op = "health" /\ th[Foreground].pc = "ret") =>
        \A n \in DOMAIN tasks :
            th[Foreground].before[n] = SpecifiedStatus(tasks[n], now)

\* the report is computed for an inactive task with a low success rate and
\* no error
InactiveLowRate ==
    /\ th[Foreground].op = "health" /\ th[Foreground].pc = "ret"
    /\ \E n \in DOMAIN tasks :
          /\ ~tasks[n].active
          /\ last_error(tasks[n]) = None
          /\ run_count(tasks[n]) > 0
          /\ success_count(tasks[n]) * 100 < 90 * run_count(tasks[n])
          /\ th[Foreground].before[n] = "Inactive"

\* C20: what get_task_statistics returns for the stored tasks: active and
\* inactive tasks add up to all tasks; total_executions is the sum of
\* run_count; successful and failed executions add up to
\* total_executions; tasks_with_errors counts the tasks with a last_error;
\* next_execution is the earliest next_run of the active tasks and
\* last_execution the latest last_run, none when there is none.
StatisticsConsistent ==
    (th[Foreground].op = "stats" /\ th[Foreground].pc = "ret") =>
        LET r == th[Foreground].before
            N == DOMAIN tasks
            A == {n \in N : tasks[n].active /\ tasks[n].next_run # None}
            L == {n \in N : tasks[n].last_run # None}
        IN  /\ r.total_tasks = Cardinality(N)
            /\ r.active_tasks + r.inactive_tasks = r.total_tasks
            /\ r.active_tasks = Cardinality({n \in N : tasks[n].active})
            /\ r.total_executions = SumOver(tasks, "run_count", N)
            /\ r.successful_executions + r.failed_executions = r.total_executions
            /\ r.tasks_with_errors = Cardinality({n \in N : last_error(tasks[n]) # None})
            /\ IF A = {} THEN r.next_execution = None
               ELSE \E n \in A :
                      /\ r.next_execution = <<fromisoformat(tasks[n].next_run)>>
                      /\ \A m \in A : fromisoformat(tasks[n].next_run) <= fromisoformat(tasks[m].next_run)
            /\ IF L = {} THEN r.last_execution = None
               ELSE \E n \in L :
                      /\ r.last_execution = <<fromisoformat(tasks[n].last_run)>>
                      /\ \A m \in L : fromisoformat(tasks[n].last_run) >= fromisoformat(tasks[m].last_run)

\* C18: no create path stores a task whose description is empty, whose
\* name has a path-unsafe character, or whose send time is not an hour in
\* 0..23 and a minute in 0..59; every stored task has a valid time of day
\* and one of the three frequencies.
StoredTasksValid ==
    \A n \in DOMAIN tasks :
        /\ Characters(tasks[n].description) # <<>>
        /\ \A i \in 1..Len(Characters(n)) :
              Characters(n)[i] \notin {"/", "\\", ":", "*", "?", "\"", "<", ">", "|"}
        /\ Len(tasks[n].send_time) = 2
        /\ tasks[n].send_time[1] \in 0..23
        /\ tasks[n].send_time[2] \in 0..59
        /\ tasks[n].frequency \in {"Daily", "Weekly", "Monthly"}

\* C21: _load_tasks followed at once by _save_tasks leaves the document on
\* disk as it was, the same names, fields and values in the same order;
\* and a manager that loads the document _save_tasks has written holds the
\* map that was saved.
StoreRoundTrip ==
    [][/\ (/\ th[Foreground].op = "reload"
           /\ th[Foreground].pc = "save_write"
           /\ th'[Foreground].pc = "ret"
           /\ th[Foreground].before.ok) => disk' = th[Foreground].before
       /\ (th[Foreground].pc = "save_write" /\ th'[Foreground].pc = "ret") =>
              /\ LoadedTasks(disk') = tasks
              /\ LoadedOrder(disk') = order
       /\ (~up /\ up' /\ disk.ok) => Document(tasks', order') = disk]_vars

\* a document with a task that has run, null and non-null fields in it, was
\* loaded and saved
ReloadedExecuted ==
    /\ th[Foreground].op = "reload"
    /\ th[Foreground].pc = "ret"
    /\ \E n \in DOMAIN tasks :
          /\ tasks[n].last_run # None
          /\ last_error(tasks[n]) = None
          /\ run_count(tasks[n]) = 1

\* C22: no two threads are at the same time between a change of self.tasks
\* and the end of the _save_tasks that follows it, and no two threads are
\* in _save_tasks at the same time.
StoreMutationsExclusive ==
    Cardinality({t \in Threads : Saving(t)}) <= 1

\* C23: when an execution from the menu and an execution of the sweep of
\* the same task overlap and both have applied their outcome, run_count is
\* two more than before them, success_count + error_count is two more, and
\* run_count = success_count + error_count.
NoLostUpdate ==
    \A w \in Workers :
        (/\ th[w].op = "exec" /\ Saving(w) /\ Holds(w)
         /\ th[Foreground].op = "exec" /\ Saving(Foreground) /\ Holds(Foreground)
         /\ th[w].name = th[Foreground].name
         /\ th[w].before = th[Foreground].before) =>
            LET b == th[w].before
                a == tasks[th[w].name]
            IN  /\ run_count(a) = run_count(b) + 2
                /\ success_count(a) + error_count(a) = success_count(b) + error_count(b) + 2
                /\ run_count(a) = success_count(a) + error_count(a)

\* C24: while the scheduler thread runs and is not stopped, an active task
\* that was stored with its next_run still to come when a sweep of the
\* thread began is executed by a sweep less than 60 seconds after that
\* next_run: no sweep begins 60 seconds or more after the next_run of such
\* a task with the task never executed.
DueNeverMissed ==
    \A w \in Workers, n \in DOMAIN tasks :
        (/\ ~stop_scheduler
         /\ th[w].pc = "iter"
         /\ th[w].fires > 0
         /\ fromisoformat(tasks[n].created_at) <= th[w].firstAt
         /\ th[w].firstAt < fromisoformat(tasks[n].next_run)
         /\ tasks[n].active
         /\ tasks[n].last_run = None
         /\ last_error(tasks[n]) = None) =>
            th[w].sweepNow - fromisoformat(tasks[n].next_run) < 60

\* C25: an active task that the sweep no longer executes, its next_run
\* being 60 seconds or more in the past, is reported Unhealthy by
\* get_task_health_report.
OverdueSurfaced ==
    (th[Foreground].op = "health" /\ th[Foreground].pc = "ret") =>
        \A n \in DOMAIN tasks :
            (/\ tasks[n].active
             /\ tasks[n].next_run # None
             /\ now - fromisoformat(tasks[n].next_run) >= 60) =>
                th[Foreground].before[n] = "Unhealthy"

\* this step is the outcome update of a delivered execution in thread t
SuccessApplied(t) ==
    /\ th[t].pc = "update" /\ th[t].success /\ Holds(t)
    /\ th'[t].pc = "save_open"

\* this step records a failed execution of task n: the update after a
\* message that was not delivered, or the sweep's entry after execute_task
\* returned False
FailureRecorded(n) ==
    \E t \in Threads :
        /\ th[t].name = n
        /\ \/ th[t].pc = "update" /\ ~th[t].success /\ th'[t].pc = "save_open"
           \/ th[t].pc = "swerr" /\ th'[t].pc = "save_open"

\* C26: the outcome update of an execution that returns True leaves the
\* task's last_error null, and a null last_error stays null under toggle,
\* under executions of other tasks and under sweeps that do not execute
\* the task: it becomes non-null only where a failed execution of the task
\* is recorded.
ErrorClearedUntilFailure ==
    [][/\ \A t \in Threads :
             /\ SuccessApplied(t) => last_error(tasks'[th[t].name]) = None
             /\ (ExecReturns(t) /\ ExecResult(t) = TRUE) => th[t].success
       /\ \A n \in DOMAIN tasks \cap DOMAIN tasks' :
             (last_error(tasks[n]) = None /\ last_error(tasks'[n]) # None) =>
                 FailureRecorded(n)]_vars

\* a task has kept the null last_error of its delivered execution through
\* a failed execution of the other task and through its own toggle
ClearedKept ==
    \E n \in DOMAIN tasks, m \in DOMAIN tasks :
        /\ n # m
        /\ success_count(tasks[n]) = 1
        /\ "last_error" \in DOMAIN tasks[n] /\ tasks[n].last_error = None
        /\ last_error(tasks[m]) # None
        /\ th[Foreground].op = "toggle" /\ th[Foreground].pc = "ret"
        /\ th[Foreground].name = n

\* C27: the health report asked for after an execution of a stored task
\* has failed, no delivered execution and no clearing of errors having
\* come since, gives the task as Unhealthy.
FailuresReported ==
    [][(/\ th[Foreground].op = "exec"
        /\ th[Foreground].pc = "ret"
        /\ th[Foreground].val = FALSE
        /\ th[Foreground].name \in DOMAIN tasks
        /\ th'[Foreground].op = "health") =>
           th'[Foreground].before[th[Foreground].name] = "Unhealthy"]_vars

\* C28: in every state, whatever was created, toggled, executed, deleted
\* or done by a quick action, every stored task that is active has a
\* next_run that is not null and that datetime.fromisoformat accepts.
ActiveHasNextRun ==
    \A n \in DOMAIN tasks :
        tasks[n].active =>
            /\ "next_run" \in DOMAIN tasks[n]
            /\ tasks[n].next_run # None
            /\ IsIsoString(tasks[n].next_run)

\* the quick action "Toggle All Tasks" has returned and a task that was
\* executed before is active
EnabledAfterRun ==
    /\ th[Foreground].op = "toggle_all" /\ th[Foreground].pc = "ret"
    /\ \E n \in DOMAIN tasks :
          /\ tasks[n].active
          /\ run_count(tasks[n]) = 1

\* this step is the outcome update of execute_task in thread t
OutcomeApplied(t) == th[t].pc = "update" /\ th'[t].pc = "save_open"

\* this step is a call of delete_task that finds the task n
DeleteCalled(n) ==
    /\ FgReady
    /\ th'[Foreground].pc = "save_open"
    /\ th'[Foreground].op = "delete"
    /\ th'[Foreground].name = n
    /\ n \in DOMAIN tasks

\* this step is a call of a quick action
QuickActionCalled ==
    /\ FgReady
    /\ th'[Foreground].pc = "save_open"
    /\ th'[Foreground].op \in {"toggle_all", "clear_errors"}

\* task n is in self.tasks after the step as it was before
Kept(n) == n \in DOMAIN tasks' /\ tasks'[n] = tasks[n]

\* C29: execute_task changes only last_run, the counters, last_error and
\* next_run of the task it is called for; toggle_task only active, and
\* next_run when the task becomes active; delete_task removes the entry it
\* is called for and nothing else; self.tasks changes in no other step of
\* these operations; no operation changes the name, description, report
\* reference, chat id, send_time, frequency or created_at of a task, and
\* the three operations leave every other task as it is; an execution
\* leaves active as it is.
FramePolicy ==
    [][/\ \A n \in DOMAIN tasks \cap DOMAIN tasks' :
             \A k \in {"task_name", "description", "report_type", "saved_config_name",
                        "chat_id", "send_time", "frequency", "created_at"} :
                 tasks'[n][k] = tasks[n][k]
       /\ \A t \in Threads :
             OutcomeApplied(t) =>
                 /\ \A n \in DOMAIN tasks \ {th[t].name} : Kept(n)
                 /\ DOMAIN tasks' = DOMAIN tasks
                 /\ \A k \in DOMAIN tasks[th[t].name] \
                            {"last_run", "run_count", "success_count", "error_count",
                             "last_error", "next_run"} :
                        tasks'[th[t].name][k] = tasks[th[t].name][k]
       /\ \A m \in DueNames :
             /\ ToggleCalled(m) =>
                    /\ \A n \in DOMAIN tasks \ {m} : Kept(n)
                    /\ DOMAIN tasks' = DOMAIN tasks
                    /\ \A k \in DOMAIN tasks[m] \ {"active", "next_run"} :
                           tasks'[m][k] = tasks[m][k]
                    /\ ~tasks'[m].active => tasks'[m].next_run = tasks[m].next_run
             /\ DeleteCalled(m) =>
                    /\ \A n \in DOMAIN tasks \ {m} : Kept(n)
                    /\ DOMAIN tasks' = DOMAIN tasks \ {m}
       /\ tasks' # tasks =>
              \/ \E t \in Threads : OutcomeApplied(t)
              \/ \E m \in DueNames : ToggleCalled(m) \/ DeleteCalled(m)
              \/ QuickActionCalled]_vars

\* the inactive task was executed from the menu and is still inactive, the
\* other task being stored
InactiveExecuted ==
    /\ th[Foreground].op = "exec" /\ th[Foreground].pc = "ret"
    /\ th[Foreground].name = "b"
    /\ DOMAIN tasks = DueNames
    /\ ~tasks["b"].active
    /\ run_count(tasks["b"]) = 1

\* C30: _calculate_next_run called with a send time that does not parse or
\* with a frequency that is none of Daily, Weekly and Monthly gives no
\* next_run, and what it gives for a valid schedule is strictly after
\* now.
InvalidScheduleSurfaced ==
    (th[Foreground].op = "calc" /\ th[Foreground].pc = "ret") =>
        IF /\ Len(CalcT) = 2
           /\ CalcT[1] \in 0..23
           /\ CalcT[2] \in 0..59
           /\ th[Foreground].before.frequency \in {"Daily", "Weekly", "Monthly"}
        THEN /\ IsIsoString(CalcResult)
             /\ fromisoformat(CalcResult) > now
        ELSE ~IsIsoString(CalcResult)

(***************************************************************************)
(* A stored task executed from the menu at any later instant.              *)
(***************************************************************************)
\* the instant the task of ManualInit was created: Wednesday 2023-12-20,
\* one second before its time of day
ManualCreatedAt == CalcEpoch * SecondsPerDay + 9 * 3600 + 29 * 60 + 59

\* One active task of each frequency, created by create_task at
\* ManualCreatedAt and never executed; the clock is at any later instant.
ManualInit ==
    /\ up = TRUE
    /\ now \in {i \in CalcInstants : i >= ManualCreatedAt}
    /\ \E f \in KnownFrequencies :
          tasks = [n \in {"a"} |-> ApiTask("a", "d", <<9, 30>>, f, TRUE, ManualCreatedAt)]
    /\ order = <<"a">>
    /\ oids = [n \in {"a"} |-> 1]
    /\ nextOid = 1
    /\ disk = Document(tasks, order)
    /\ scheduler_thread = NoThread
    /\ stop_scheduler = FALSE
    /\ th = [t \in Threads |-> IF t = Foreground THEN Thread("idle") ELSE Thread("dead")]

ManualNext ==
    \/ execute_task("a")
    \/ ExecCall(Foreground)
    \/ ExecUpdate(Foreground)
    \/ FgStep

ManualSpec == ManualInit /\ [][ManualNext]_vars

\* the task the thread looked up has a next_run that is still to come
PendingAhead(t) ==
    /\ th[t].before.active
    /\ IsIsoString(th[t].before.next_run)
    /\ now < fromisoformat(th[t].before.next_run)

\* C31: when an active task is executed from the menu strictly before its
\* pending next_run, the outcome update leaves next_run at that pending
\* instant, whatever the frequency.
ManualKeepsPending ==
    [][(OutcomeApplied(Foreground) /\ PendingAhead(Foreground)) =>
           tasks'[th[Foreground].name].next_run = th[Foreground].before.next_run]_vars

\* next_run of a stored task as an instant
NextRunOf(ts, n) == fromisoformat(ts[n].next_run)

\* C32: with a clock that does not go back, no step of a toggle or of an
\* execution lowers the next_run of a stored task, and when an execution
\* called by a sweep returns, the next_run of the task is strictly after
\* the next_run that made the sweep execute it.
NextRunAdvances ==
    [][/\ \A n \in DOMAIN tasks \cap DOMAIN tasks' :
             NextRunOf(tasks', n) >= NextRunOf(tasks, n)
       /\ \A w \in Workers :
             (ExecReturns(w) /\ Holds(w)) =>
                 NextRunOf(tasks', th[w].name) > fromisoformat(th[w].trig[3])]_vars

\* C33: a task created or deleted by the caller while the scheduler thread
\* is in a sweep does not disturb the sweep: the thread leaves the sweep
\* only after the last task of the sweep, and then sleeps the 30 seconds of
\* the poll interval, never the 60 seconds of the error backoff.
SweepUndisturbed ==
    [][\A w \in Workers :
          (th[w].pc = "iter" /\ th'[w].pc = "wait") =>
              /\ th[w].pos > th[w].len
              /\ th'[w].sleepLeft = PollInterval]_vars

(***************************************************************************)
(* get_scheduler_status, and a caller who starts and stops the scheduler   *)
(* and asks for its status at any moment.                                  *)
(***************************************************************************)
\* lines 762-771; the expression of line 762 is None, not False, when no
\* thread was ever created
SchedulerStatus ==
    [running |-> IF scheduler_thread = NoThread
                 THEN None
                 ELSE Alive(scheduler_thread) /\ ~stop_scheduler,
     total_tasks |-> Cardinality(DOMAIN tasks),
     active_tasks |-> Cardinality({n \in DOMAIN tasks : tasks[n].active}),
     thread_alive |-> IF scheduler_thread = NoThread
                      THEN FALSE
                      ELSE Alive(scheduler_thread)]

\* get_scheduler_status called from the menu; the result is kept
get_scheduler_status ==
    /\ FgReady
    /\ th' = [th EXCEPT ![Foreground] =
                 [Returned("status", "", TRUE) EXCEPT !.before = SchedulerStatus]]
    /\ UNCHANGED <<up, now, tasks, order, oids, nextOid, disk, scheduler_thread, stop_scheduler>>

StatusNext ==
    \/ LiveNext
    \/ get_scheduler_status

StatusSpec == Init /\ [][StatusNext]_vars

\* a status that a caller reads as running: is_alive() is False when
\* running is None
ReadsRunning(status) == status.thread_alive /\ status.running

\* the caller has just been told that the scheduler is not running
ToldNotRunning ==
    /\ th[Foreground].pc = "ret"
    /\ th[Foreground].op = "status"
    /\ ~ReadsRunning(th[Foreground].before)

\* C34: when get_scheduler_status has reported that the scheduler is not
\* running and start_scheduler is called next, the scheduler is running
\* after the call (a thread is alive and the stop flag is not set), also
\* when the call comes right after stop_scheduler_service while the old
\* thread is still in its sleep; and a status with running True has
\* thread_alive True.
StartNotLost ==
    [][/\ (ToldNotRunning /\ StartReturns) => ReadsRunning(SchedulerStatus)'
       /\ (SchedulerStatus.thread_alive \/ ~ReadsRunning(SchedulerStatus))']_vars

(***************************************************************************)
(* A manager started on a document that does not parse.                    *)
(***************************************************************************)
\* the tasks written in the document before it was damaged
DamagedTasks ==
    [n \in {"b"} |-> ApiTask("b", "d", <<9, 30>>, "Daily", TRUE, StartTime)]

\* a document that holds these tasks and that json.load refuses (a
\* character changed by hand, or an encoding the reader does not accept)
DamagedDocument == [ok |-> FALSE, tasks |-> json_dump(DamagedTasks), order |-> <<"b">>]

\* the process is not running and the document is damaged
DamagedInit ==
    /\ up = FALSE
    /\ now = StartTime
    /\ tasks = EmptyMap
    /\ order = <<>>
    /\ oids = EmptyMap
    /\ nextOid = 0
    /\ disk = DamagedDocument
    /\ scheduler_thread = NoThread
    /\ stop_scheduler = FALSE
    /\ th = [t \in Threads |-> IF t = Foreground THEN Thread("idle") ELSE Thread("dead")]

DamagedNext ==
    \/ Restart
    \/ FgOps
    \/ ExecCall(Foreground)
    \/ ExecUpdate(Foreground)
    \/ FgStep
    \/ Tick

DamagedSpec == DamagedInit /\ [][DamagedNext]_vars

\* C35: a document that does not parse when the manager starts loses no
\* task: after a create, toggle, delete or execute that succeeded, the
\* tasks that were written in the damaged document are still in the
\* document on disk.
DamagedDocumentKept ==
    (/\ up
     /\ th[Foreground].pc = "ret"
     /\ th[Foreground].op \in {"create", "toggle", "delete", "exec"}
     /\ th[Foreground].val) =>
        \A n \in DOMAIN DamagedTasks : n \in DOMAIN disk.tasks

(***************************************************************************)
(* _save_tasks step by step, for two threads that save at the same time,   *)
(* beside a caller who deletes tasks at any moment.                        *)
(***************************************************************************)
\* json.dump(self.tasks, f, indent=2), line 54: the dictionary is encoded
\* into the buffer of the file object; nothing has reached the file yet
SaveEncode(t) ==
    /\ up /\ th[t].pc = "save_write"
    /\ th' = [th EXCEPT ![t].pc = "save_close", ![t].buf = Document(tasks, order)]
    /\ UNCHANGED <<up, now, tasks, order, oids, nextOid, disk, scheduler_thread, stop_scheduler>>

\* what is in the file after the buffer was written at the start of it:
\* the buffer, or, when another thread has written the file since this
\* thread opened it, the buffer followed by the rest of the longer text
Flushed(buffer) ==
    IF disk = Corrupt THEN {buffer} ELSE {buffer, Corrupt}

\* the end of the with block, line 53: the file object is closed and its
\* buffer is written; _save_tasks returns True
SaveClose(t) ==
    /\ up /\ th[t].pc = "save_close"
    /\ disk' \in Flushed(th[t].buf)
    /\ th' = [th EXCEPT ![t] = [AfterSave(t, TRUE) EXCEPT !.buf = <<>>]]
    /\ UNCHANGED <<up, now, tasks, order, oids, nextOid, scheduler_thread, stop_scheduler>>

DeleteNext ==
    \/ WorkersQuiet /\ start_scheduler
    \/ \E n \in DueNames : delete_task(n)
    \/ WorkersQuiet /\ execute_task("a")
    \/ \E t \in Threads : ExecCall(t)
    \/ \E t \in Threads : ExecUpdate(t)
    \/ \E t \in Threads : SaveOpen(t)
    \/ \E t \in Threads : SaveEncode(t)
    \/ \E t \in Threads : SaveClose(t)
    \/ \E w \in Workers : LoopCheck(w)
    \/ \E w \in Workers : Visit(w)
    \/ \E w \in Workers : SweepError(w)
    \/ Tick

DeleteSpec == KeepInit /\ [][DeleteNext]_vars

\* delete_task(n) has returned True: n was stored, is stored no more, and
\* the caller has left the call
Deleted(n) ==
    /\ n \notin DOMAIN tasks
    /\ ~(th[Foreground].op = "delete" /\ th[Foreground].name = n
          /\ th[Foreground].pc \in {"save_open", "save_write", "save_close"})

\* C36: once delete_task(n) has returned True, n is in no document that is
\* on disk from then on, also when a thread that was executing n at the
\* time applies its outcome and saves afterwards, and no sweep calls
\* execute_task for n.
DeletedStaysDeleted ==
    [][\A n \in DueNames :
          Deleted(n)' =>
              /\ n \notin DOMAIN disk'.tasks
              /\ \A w \in Workers :
                    (th[w].pc = "iter" /\ th'[w].pc = "call") => th'[w].name # n]_vars

====
